---- MODULE Spec2Model ----
(***************************************************************************)
(* BusinessCentralAPIClient (src/src/business_central_api_client.py): an   *)
(* OAuth2 client-credentials HTTP client, a subclass of requests.Session,  *)
(* with a 401 -> refresh -> retry step, OData next-link pagination and a   *)
(* query-parameter builder.                                                *)
(*                                                                         *)
(* Python values: an optional value is a sequence of length <= 1, <<>> is  *)
(* None and <<v>> is the value v.  A dict is a function from its keys;     *)
(* the empty dict is EmptyMap.                                             *)
(***************************************************************************)
EXTENDS Integers, Sequences, FiniteSets, TLC

\* ------------------------------------------------------------- bounds
\* Tokens the identity service issues in one run, the first one included.
MaxTokens == 3
\* Pages the resource API serves for one collection fetch.
MaxPages == 3

\* ------------------------------------------------------------- values
None == <<>>
Some(v) == <<v>>
EmptyMap == [k \in {} |-> ""]

\* Callers of the one client instance; Spec runs MainProc alone.
Procs == {"c1", "c2"}
MainProc == "c1"

\* Python truthiness of an optional str / an optional int.
TruthyStr(o) == o /= None /\ o[1] /= ""
TruthyInt(o) == o /= None /\ o[1] /= 0
\* f'{x}' of a str and of an int.
FmtStr(o) == o[1]
FmtInt(o) == ToString(o[1])

\* dict.update({k: v}) and `k in d`.
Update(d, k, v) == [x \in (DOMAIN d) \cup {k} |-> IF x = k THEN v ELSE d[x]]
Has(d, k) == k \in DOMAIN d
\* dict.get(k): None when the key is absent.
Get(d, k) == IF k \in DOMAIN d THEN Some(d[k]) ELSE None

\* ------------------------------------------------------------- construction
tenant_id == "tenant"
environment == "production"
company == "CRONUS"
CUSTOMER_TABLE_ENDPOINT == "SQLCustomer"
PRODUCT_TABLE_ENDPOINT == "SQLProduct"
base_url == "https://api.businesscentral.dynamics.com/v2.0/" \o tenant_id \o "/"
            \o environment \o "/ODataV4/Company('" \o company \o "')/"

\* The n-th access token of the identity service, and the token types it names.
Token(n) == "t" \o ToString(n)
TokenTypes == {"Bearer", "bearer"}

\* The Authorization header __init__ builds: f'{token_type} {access_token}'.
AuthorizationHeader(ttype, token) == ttype \o " " \o token

VARIABLES
  access_token,   \* self.access_token
  token_type,     \* self.token_type
  headers,        \* self.headers (the session's headers)
  params,         \* self.params (requests.Session's session-level params)
  issued,         \* identity service: number of tokens issued so far
  expired,        \* resource API: tokens Token(1)..Token(expired) are rejected
  pc,             \* per caller: position in its running call
  op,             \* per caller: the public method called
  args,           \* per caller: the arguments of that call
  url,            \* request(): url
  method,         \* request(): method
  reqParams,      \* request(): params
  endpoint,       \* request(): endpoint
  response,       \* request(): response (None before the first response)
  nextLink,       \* request(): nextLink
  token_response, \* get_oauth_token(): token_response (None before the identity answers)
  ret,            \* value returned to the caller (None until it returns)
  exc,            \* exception propagated to the caller (None if none)
  sent,           \* history: the HTTP requests this call issued, with their answers
  refreshes,      \* history: invocations of refresh_oauth_token in this call
  staleParams     \* history: self.params held entries when this call began

clientVars == <<access_token, token_type, headers, params>>
envVars == <<issued, expired>>
callVars == <<pc, op, args, url, method, reqParams, endpoint, response, nextLink,
              token_response, ret, exc, sent, refreshes, staleParams>>
vars == <<access_token, token_type, headers, params, issued, expired,
          pc, op, args, url, method, reqParams, endpoint, response, nextLink,
          token_response, ret, exc, sent, refreshes, staleParams>>

\* ------------------------------------------------------------- exceptions
TypeError == [type |-> "TypeError", status |-> 0]
ConnectionError == [type |-> "ConnectionError", status |-> 0]
TokenError == [type |-> "Exception", status |-> 0]
HTTPError(status) == [type |-> "HTTPError", status |-> status]

\* ------------------------------------------------------------- create_parameters
\* The arguments of create_parameters / get_customers / get_products.
\* id is the argument of get_customer / get_product, None in every other call.
NoArgs == [createdAt |-> None, modifiedAt |-> None, orderBy |-> None, select |-> None,
           offset |-> None, limit |-> None, filterExpression |-> None, id |-> None]

\* One `if x:` block of create_parameters that does self.params.update({k: v}).
\* st is [params, raised]; once an exception is raised nothing more runs.
SetIf(st, cond, k, v) ==
  IF st.raised \/ ~cond THEN st
  ELSE [st EXCEPT !.params = Update(st.params, k, v)]

\* One filter block: when '$filter' is already present the code runs
\*   self.params['$filter'] =+ f' and (...)'
\* which is an assignment of the unary plus of a str: Python raises TypeError
\* before anything is stored.  Otherwise the clause becomes the '$filter' entry.
FilterIf(st, cond, clause) ==
  IF st.raised \/ ~cond THEN st
  ELSE IF Has(st.params, "$filter") THEN [st EXCEPT !.raised = TRUE]
  ELSE [st EXCEPT !.params = Update(st.params, "$filter", clause)]

\* Variant of create_parameters without line 124: the blocks update the map the
\* last call left in self.params.
create_parameters_keeping(a) ==
  LET s0 == [params |-> params, raised |-> FALSE]
      s1 == FilterIf(s0, TruthyStr(a.createdAt),
                     "systemCreatedAt gt " \o FmtStr(a.createdAt))
      s2 == FilterIf(s1, TruthyStr(a.modifiedAt),
                     "systemModifiedAt gt " \o FmtStr(a.modifiedAt))
      s3 == SetIf(s2, TruthyStr(a.orderBy), "$orderby", FmtStr(a.orderBy))
      s4 == SetIf(s3, TruthyStr(a.select), "$select", FmtStr(a.select))
      s5 == SetIf(s4, TruthyInt(a.offset), "$skip", FmtInt(a.offset))
      s6 == SetIf(s5, TruthyInt(a.limit), "$top", FmtInt(a.limit))
      s7 == FilterIf(s6, TruthyStr(a.filterExpression), FmtStr(a.filterExpression))
  IN s7

\* Lines 122-193: the map starts empty (line 124) and each block adds its entry.
create_parameters(a) ==
  LET s0 == [params |-> EmptyMap, raised |-> FALSE]
      s1 == FilterIf(s0, TruthyStr(a.createdAt),
                     "systemCreatedAt gt " \o FmtStr(a.createdAt))
      s2 == FilterIf(s1, TruthyStr(a.modifiedAt),
                     "systemModifiedAt gt " \o FmtStr(a.modifiedAt))
      s3 == SetIf(s2, TruthyStr(a.orderBy), "$orderby", FmtStr(a.orderBy))
      s4 == SetIf(s3, TruthyStr(a.select), "$select", FmtStr(a.select))
      s5 == SetIf(s4, TruthyInt(a.offset), "$skip", FmtInt(a.offset))
      s6 == SetIf(s5, TruthyInt(a.limit), "$top", FmtInt(a.limit))
      s7 == FilterIf(s6, TruthyStr(a.filterExpression), FmtStr(a.filterExpression))
  IN s7

\* Variant of the id filter: the id is not quoted.
IdFilterUnquoted(id) == "no eq " \o id

\* get_customer / get_product: filterExpression = f"no eq '{id}'".
IdFilter(id) == "no eq '" \o id \o "'"
IdArgs(id) == [NoArgs EXCEPT !.filterExpression = Some(IdFilter(id)), !.id = Some(id)]

\* ------------------------------------------------------------- inputs
CreatedAtValues == {None, Some(""), Some("2024-01-01T00:00:00Z")}
ModifiedAtValues == {None, Some(""), Some("2024-06-30T00:00:00Z")}
FilterValues == {None, Some(""), Some("blocked eq false")}
OrderByValues == {None, Some("no desc")}
SelectValues == {None, Some("no,name")}
OffsetValues == {None, Some(0), Some(20)}
LimitValues == {None, Some(5)}

\* Every combination of arguments: the inputs of a direct create_parameters call.
ParamInputs ==
  [createdAt : CreatedAtValues, modifiedAt : ModifiedAtValues, orderBy : OrderByValues,
   select : SelectValues, offset : OffsetValues, limit : LimitValues,
   filterExpression : FilterValues, id : {None}]

\* The argument lists get_customers / get_products are called with.
CallArgs ==
  { NoArgs,
    [NoArgs EXCEPT !.filterExpression = Some("blocked eq false")],
    [NoArgs EXCEPT !.createdAt = Some("2024-01-01T00:00:00Z")],
    [NoArgs EXCEPT !.createdAt = Some("2024-01-01T00:00:00Z"),
                   !.modifiedAt = Some("2024-06-30T00:00:00Z")],
    [NoArgs EXCEPT !.modifiedAt = Some("2024-06-30T00:00:00Z"),
                   !.filterExpression = Some("blocked eq false")],
    [NoArgs EXCEPT !.modifiedAt = Some("2024-06-30T00:00:00Z"),
                   !.orderBy = Some("no desc"), !.select = Some("no,name"),
                   !.offset = Some(20), !.limit = Some(5)] }

Ids == {"060.166.0574", "10000"}

\* Direct calls of request(url, method, params).
OtherUrl == "https://api.businesscentral.dynamics.com/v2.0/tenant/production/api/v2.0/items"
RequestCalls ==
  { [url |-> PRODUCT_TABLE_ENDPOINT, method |-> "POST", params |-> None],
    [url |-> CUSTOMER_TABLE_ENDPOINT, method |-> "GET", params |-> Some(("$top" :> "5"))],
    [url |-> OtherUrl, method |-> "GET", params |-> None] }

\* ------------------------------------------------------------- the resource API
PageValues == {<<>>, <<"r1">>, <<"r2", "r1">>}
ErrorStatuses == {403, 500}

\* A result page: a JSON object with `value` and, optionally, `@odata.nextLink`.
Page(value) == ("value" :> value)
PageWithNext(value, link) == ("value" :> value) @@ ("@odata.nextLink" :> link)
ErrorBody == ("error" :> "failed")

\* The absolute continuation link the API puts on the k-th page of a collection.
NextLinkOf(collection, k) == collection \o "?$skiptoken=" \o ToString(k)

\* The API accepts a request iff its Authorization names a token that has not expired.
Accepts(auth) ==
  \E n \in (expired + 1)..issued, ty \in TokenTypes :
    auth = AuthorizationHeader(ty, Token(n))

\* Number of pages the API has served to the call so far.
Served(log) == Cardinality({i \in 1..Len(log) : log[i].resp /= None /\ log[i].resp[1].status = 200})

\* What may come back for a request: None stands for a transport failure (the
\* transport raises), otherwise a response with a status and a JSON body.
Answers(auth, collection, served) ==
  {None} \cup
  (IF ~Accepts(auth)
   THEN {Some([status |-> 401, body |-> ErrorBody])}
   ELSE {Some([status |-> s, body |-> ErrorBody]) : s \in ErrorStatuses}
        \cup {Some([status |-> 200, body |-> Page(v)]) : v \in PageValues}
        \cup (IF served + 1 < MaxPages
              THEN {Some([status |-> 200,
                          body |-> PageWithNext(v, NextLinkOf(collection, served + 2))]) :
                       v \in PageValues}
              ELSE {}))

\* ------------------------------------------------------------- the identity service
\* acquire_token_for_client: a token and its type, or an error without access_token.
TokenResponses ==
  {("error" :> "invalid_client")} \cup
  (IF issued < MaxTokens
   THEN {("access_token" :> Token(issued + 1)) @@ ("token_type" :> ty) : ty \in TokenTypes}
   ELSE {})

\* ------------------------------------------------------------- requests.Session
\* urllib.parse.urljoin(base, url) for the references used here: a url with a
\* scheme replaces the base, a plain relative name is appended to a base ending in '/'.
HasScheme(u) == Len(u) >= 8 /\ SubSeq(u, 1, 8) = "https://"
urljoin(base, u) == IF HasScheme(u) THEN u ELSE base \o u

\* requests.sessions.merge_setting for params: the class is a requests.Session and
\* create_parameters assigns self.params, which is the session's own attribute of
\* query parameters "to attach to each Request"; Session.request merges it under
\* the params passed to the call (the call's entries win).
merge_setting(request_setting, session_setting) ==
  IF request_setting = None THEN session_setting
  ELSE LET r == request_setting[1]
       IN [k \in (DOMAIN session_setting) \cup (DOMAIN r) |->
             IF k \in DOMAIN r THEN r[k] ELSE session_setting[k]]

\* The HTTP request super().request(url=u, method=m, headers=self.headers, params=prm)
\* puts on the wire.
Prepared(u, m, prm) ==
  [url |-> u, method |-> m, auth |-> headers.Authorization,
   params |-> merge_setting(prm, params)]

\* response.json(): parses the body text; every call yields a new object.
json(resp) == resp.body

\* Response.raise_for_status raises HTTPError for a 4xx or 5xx status.
IsError(resp) == resp.status >= 400 /\ resp.status < 600

\* Variants of the 401 test: any error status / 401 or 403 sends the call to the refresh.
UnauthorizedAnyError(resp) == resp.status >= 400
UnauthorizedOrForbidden(resp) == resp.status \in {401, 403}
\* Variant of the 401 test: a 401 is not acted on once another call has replaced
\* the token the headers were built from.
UnauthorizedUnlessRefreshed(resp) ==
  resp.status = 401 /\ headers.Authorization = AuthorizationHeader(token_type, access_token)

\* Line 96: response.status_code == 401.
Unauthorized(resp) == resp.status = 401

\* Variant of line 103: only a 5xx status raises.
StatusRaisesServerOnly(resp) == resp.status >= 500 /\ resp.status < 600

\* Line 103: response.raise_for_status() raises.
StatusRaises(resp) == IsError(resp)

\* Variant of line 105: the next links are followed whatever the method.
IsGetAlways(m) == TRUE

\* Line 105: method == 'GET'.
IsGet(m) == m = "GET"

\* Variant of line 112: the status of a next-link response is not looked at.
PageStatusNeverRaises(resp) == FALSE
\* Variant of line 112: a 401 on a next-link response is let through.
PageStatusRaisesExcept401(resp) == IsError(resp) /\ resp.status /= 401

\* Line 112: nextLink_response.raise_for_status() raises.
PageStatusRaises(resp) == IsError(resp)

\* ------------------------------------------------------------- state
Init ==
  /\ access_token = Token(1)
  /\ token_type \in TokenTypes
  /\ headers = [Authorization |-> AuthorizationHeader(token_type, access_token),
                Accept |-> "application/json",
                ContentType |-> "application/x-www-form-urlencoded"]
  /\ params = EmptyMap
  /\ issued = 1
  /\ expired = 0
  /\ pc = [p \in Procs |-> "idle"]
  /\ op = [p \in Procs |-> ""]
  /\ args = [p \in Procs |-> NoArgs]
  /\ url = [p \in Procs |-> ""]
  /\ method = [p \in Procs |-> ""]
  /\ reqParams = [p \in Procs |-> None]
  /\ endpoint = [p \in Procs |-> ""]
  /\ response = [p \in Procs |-> None]
  /\ nextLink = [p \in Procs |-> None]
  /\ token_response = [p \in Procs |-> None]
  /\ ret = [p \in Procs |-> None]
  /\ exc = [p \in Procs |-> None]
  /\ sent = [p \in Procs |-> <<>>]
  /\ refreshes = [p \in Procs |-> 0]
  /\ staleParams = [p \in Procs |-> FALSE]

\* A caller may start a call when it is not inside one.
CanCall(p) == pc[p] = "idle"

\* The frame of a new call: nothing bound, nothing sent, nothing returned.
NewCall(p, name, a) ==
  /\ op' = [op EXCEPT ![p] = name]
  /\ args' = [args EXCEPT ![p] = a]
  /\ url' = [url EXCEPT ![p] = ""]
  /\ method' = [method EXCEPT ![p] = ""]
  /\ reqParams' = [reqParams EXCEPT ![p] = None]
  /\ endpoint' = [endpoint EXCEPT ![p] = ""]
  /\ response' = [response EXCEPT ![p] = None]
  /\ nextLink' = [nextLink EXCEPT ![p] = None]
  /\ ret' = [ret EXCEPT ![p] = None]
  /\ sent' = [sent EXCEPT ![p] = <<>>]
  /\ staleParams' = [staleParams EXCEPT ![p] = params /= EmptyMap]

\* get_customers / get_products, first statement: self.create_parameters(...).
\* It replaces self.params; a TypeError raised inside it ends the call.
BuildParameters(p, name, a) ==
  /\ CanCall(p)
  /\ NewCall(p, name, a)
  /\ LET st == create_parameters(a)
     IN /\ params' = st.params
        /\ pc' = [pc EXCEPT ![p] = IF st.raised THEN "raised" ELSE "built"]
        /\ exc' = [exc EXCEPT ![p] = IF st.raised THEN Some(TypeError) ELSE None]
  /\ UNCHANGED <<access_token, token_type, headers, issued, expired,
                 token_response, refreshes>>

get_customers(p, a) == BuildParameters(p, "get_customers", a)
get_products(p, a) == BuildParameters(p, "get_products", a)
get_customer(p, id) == BuildParameters(p, "get_customer", IdArgs(id))
get_product(p, id) == BuildParameters(p, "get_product", IdArgs(id))

\* The collection a fetch method names.
TableOf(name) ==
  IF name \in {"get_customers", "get_customer"}
  THEN CUSTOMER_TABLE_ENDPOINT ELSE PRODUCT_TABLE_ENDPOINT

\* get_customers / get_products, second statement:
\* self.request(url=<table>, method='GET', params=self.params).
CallRequest(p) ==
  /\ pc[p] = "built"
  /\ url' = [url EXCEPT ![p] = TableOf(op[p])]
  /\ method' = [method EXCEPT ![p] = "GET"]
  /\ reqParams' = [reqParams EXCEPT ![p] = Some(params)]
  /\ pc' = [pc EXCEPT ![p] = "send"]
  /\ UNCHANGED <<clientVars, envVars, op, args, staleParams, endpoint, response, nextLink,
                 token_response, ret, exc, sent, refreshes>>

\* A direct call request(url, method, params).
request(p, u, m, prm) ==
  /\ CanCall(p)
  /\ op' = [op EXCEPT ![p] = "request"]
  /\ args' = [args EXCEPT ![p] = NoArgs]
  /\ url' = [url EXCEPT ![p] = u]
  /\ method' = [method EXCEPT ![p] = m]
  /\ reqParams' = [reqParams EXCEPT ![p] = prm]
  /\ endpoint' = [endpoint EXCEPT ![p] = ""]
  /\ response' = [response EXCEPT ![p] = None]
  /\ nextLink' = [nextLink EXCEPT ![p] = None]
  /\ ret' = [ret EXCEPT ![p] = None]
  /\ exc' = [exc EXCEPT ![p] = None]
  /\ sent' = [sent EXCEPT ![p] = <<>>]
  /\ staleParams' = [staleParams EXCEPT ![p] = params /= EmptyMap]
  /\ pc' = [pc EXCEPT ![p] = "send"]
  /\ UNCHANGED <<clientVars, envVars, token_response, refreshes>>

\* A direct call create_parameters(...): replaces self.params and returns None.
CallCreateParameters(p, a) ==
  /\ CanCall(p)
  /\ NewCall(p, "create_parameters", a)
  /\ LET st == create_parameters(a)
     IN /\ params' = st.params
        /\ pc' = [pc EXCEPT ![p] = IF st.raised THEN "raised" ELSE "done"]
        /\ exc' = [exc EXCEPT ![p] = IF st.raised THEN Some(TypeError) ELSE None]
  /\ UNCHANGED <<access_token, token_type, headers, issued, expired,
                 token_response, refreshes>>

\* ------------------------------------------------------------- get_oauth_token
\* Variant of get_oauth_token: the fields are assigned with .get() before the test,
\* so a response without access_token overwrites the stored token with None.
get_oauth_token_overwriting(response_) ==
  IF Has(response_, "access_token")
  THEN [access_token |-> response_["access_token"],
        token_type |-> response_["token_type"], raised |-> FALSE]
  ELSE [access_token |-> "None", token_type |-> "None", raised |-> TRUE]

\* The stored token after get_oauth_token has seen token_response, and whether
\* it raised: both fields are assigned when 'access_token' is in the response,
\* otherwise the exception is raised with nothing assigned.
get_oauth_token(response_) ==
  IF Has(response_, "access_token")
  THEN [access_token |-> response_["access_token"],
        token_type |-> response_["token_type"], raised |-> FALSE]
  ELSE [access_token |-> access_token, token_type |-> token_type, raised |-> TRUE]

\* refresh_oauth_token is get_oauth_token; self.headers is not rebuilt.
RefreshStep(p, response_, next) ==
  LET t == get_oauth_token(response_)
  IN /\ token_response' = [token_response EXCEPT ![p] = Some(response_)]
     /\ refreshes' = [refreshes EXCEPT ![p] = @ + 1]
     /\ access_token' = t.access_token
     /\ token_type' = t.token_type
     /\ issued' = IF t.raised THEN issued ELSE issued + 1
     /\ pc' = [pc EXCEPT ![p] = IF t.raised THEN "raised" ELSE next]
     /\ exc' = [exc EXCEPT ![p] = IF t.raised THEN Some(TokenError) ELSE None]
     /\ UNCHANGED <<headers, params, expired>>

\* A direct call refresh_oauth_token().
refresh_oauth_token(p) ==
  /\ CanCall(p)
  /\ NewCall(p, "refresh_oauth_token", NoArgs)
  /\ \E r \in TokenResponses : RefreshStep(p, r, "done")

\* ------------------------------------------------------------- request
\* One entry of the history of requests.
Exchange(req, answer) ==
  [url |-> req.url, method |-> req.method, auth |-> req.auth, params |-> req.params,
   resp |-> answer]

\* The call ends in an exception.
Raise(p, e) ==
  /\ pc' = [pc EXCEPT ![p] = "raised"]
  /\ exc' = [exc EXCEPT ![p] = Some(e)]

\* Lines 103-120 on the response r that survived the 401 check:
\* raise_for_status, then for GET the first look at '@odata.nextLink'.
Conclude(p, r) ==
  /\ response' = [response EXCEPT ![p] = Some(r)]
  /\ IF StatusRaises(r)
     THEN /\ Raise(p, HTTPError(r.status))
          /\ UNCHANGED <<nextLink, ret>>
     ELSE IF IsGet(method[p])
     THEN LET link == Get(json(r), "@odata.nextLink")
          IN /\ nextLink' = [nextLink EXCEPT ![p] = link]
             /\ IF TruthyStr(link)
                THEN /\ pc' = [pc EXCEPT ![p] = "paging"]
                     /\ UNCHANGED ret
                ELSE /\ pc' = [pc EXCEPT ![p] = "done"]
                     /\ ret' = [ret EXCEPT ![p] = Get(json(r), "value")]
             /\ UNCHANGED exc
     ELSE /\ pc' = [pc EXCEPT ![p] = "done"]
          /\ ret' = [ret EXCEPT ![p] = Some(json(r))]
          /\ UNCHANGED <<nextLink, exc>>

\* Lines 92-96: resolve the url, issue the call, look at the status.
SendFirst(p) ==
  /\ pc[p] = "send"
  /\ LET ep == urljoin(base_url, url[p])
         req == Prepared(ep, method[p], reqParams[p])
     IN /\ endpoint' = [endpoint EXCEPT ![p] = ep]
        /\ \E answer \in Answers(req.auth, ep, 0) :
             /\ sent' = [sent EXCEPT ![p] = Append(@, Exchange(req, answer))]
             /\ IF answer = None
                THEN /\ Raise(p, ConnectionError)
                     /\ UNCHANGED <<response, nextLink, ret>>
                ELSE IF Unauthorized(answer[1])
                THEN /\ pc' = [pc EXCEPT ![p] = "refresh"]
                     /\ response' = [response EXCEPT ![p] = answer]
                     /\ UNCHANGED <<nextLink, ret, exc>>
                ELSE Conclude(p, answer[1])
  /\ UNCHANGED <<clientVars, envVars, op, args, staleParams, url, method, reqParams,
                 token_response, refreshes>>

\* Line 98: self.refresh_oauth_token().
RefreshToken(p) ==
  /\ pc[p] = "refresh"
  /\ \E r \in TokenResponses : RefreshStep(p, r, "retry")
  /\ UNCHANGED <<op, args, staleParams, url, method, reqParams, endpoint, response,
                 nextLink, ret, sent>>

\* Line 100: the call again, then lines 103-120.
RetryRequest(p) ==
  /\ pc[p] = "retry"
  /\ LET req == Prepared(endpoint[p], method[p], reqParams[p])
     IN \E answer \in Answers(req.auth, endpoint[p], 0) :
          /\ sent' = [sent EXCEPT ![p] = Append(@, Exchange(req, answer))]
          /\ IF answer = None
             THEN /\ Raise(p, ConnectionError)
                  /\ UNCHANGED <<response, nextLink, ret>>
             ELSE Conclude(p, answer[1])
  /\ UNCHANGED <<clientVars, envVars, op, args, staleParams, url, method, reqParams,
                 endpoint, token_response, refreshes>>

\* Line 114: response.json()['value'].extend(nextLink_response.json()['value']).
\* The list extended belongs to the object this call of response.json() has just
\* parsed; nothing keeps it, and `response` is what it was.
ExtendValue(resp, page) == resp

\* Variant of line 116: the link is read from `response`, the first page, again.
LoopNextLinkFromFirst(first, page) == Get(json(first), "@odata.nextLink")

\* Line 116: nextLink = nextLink_response.json().get('@odata.nextLink').
LoopNextLink(first, page) == Get(json(page), "@odata.nextLink")

\* Lines 109-118: one turn of the loop, and the return when the link is falsy.
NextPage(p) ==
  /\ pc[p] = "paging"
  /\ LET req == Prepared(nextLink[p][1], method[p], None)
     IN \E answer \in Answers(req.auth, endpoint[p], Served(sent[p])) :
          /\ sent' = [sent EXCEPT ![p] = Append(@, Exchange(req, answer))]
          /\ IF answer = None
             THEN /\ Raise(p, ConnectionError)
                  /\ UNCHANGED <<response, nextLink, ret>>
             ELSE IF PageStatusRaises(answer[1])
             THEN /\ Raise(p, HTTPError(answer[1].status))
                  /\ UNCHANGED <<response, nextLink, ret>>
             ELSE LET extended == ExtendValue(response[p][1], answer[1])
                      link == LoopNextLink(response[p][1], answer[1])
                  IN /\ response' = [response EXCEPT ![p] = Some(extended)]
                     /\ nextLink' = [nextLink EXCEPT ![p] = link]
                     /\ IF TruthyStr(link)
                        THEN UNCHANGED <<pc, ret>>
                        ELSE /\ pc' = [pc EXCEPT ![p] = "done"]
                             /\ ret' = [ret EXCEPT ![p] = Get(json(extended), "value")]
                     /\ UNCHANGED exc
  /\ UNCHANGED <<clientVars, envVars, op, args, staleParams, url, method, reqParams,
                 endpoint, token_response, refreshes>>

\* The caller takes the returned value or the exception; the frame of the call is gone.
Return(p) ==
  /\ pc[p] \in {"done", "raised"}
  /\ pc' = [pc EXCEPT ![p] = "idle"]
  /\ NewCall(p, "", NoArgs)
  /\ exc' = [exc EXCEPT ![p] = None]
  /\ token_response' = [token_response EXCEPT ![p] = None]
  /\ refreshes' = [refreshes EXCEPT ![p] = 0]
  /\ UNCHANGED <<clientVars, envVars>>

\* ------------------------------------------------------------- environment
\* The oldest token still accepted by the resource API expires.
Expire ==
  /\ expired < issued
  /\ expired' = expired + 1
  /\ UNCHANGED <<clientVars, issued, callVars>>

\* ------------------------------------------------------------- specifications
Step(p) ==
  \/ \E a \in CallArgs : get_customers(p, a)
  \/ \E a \in CallArgs : get_products(p, a)
  \/ \E id \in Ids : get_customer(p, id)
  \/ \E id \in Ids : get_product(p, id)
  \/ \E c \in RequestCalls : request(p, c.url, c.method, c.params)
  \/ refresh_oauth_token(p)
  \/ CallRequest(p)
  \/ SendFirst(p)
  \/ RefreshToken(p)
  \/ RetryRequest(p)
  \/ NextPage(p)
  \/ Return(p)

\* One caller at a time: the calls on the client do not overlap.
Next == Step(MainProc) \/ Expire

Spec == Init /\ [][Next]_vars

\* Two callers on one client, one fetch call each, their steps interleaved in any
\* order: nothing in the class orders the statements of one call against another's.
\* Each call is followed through the parameter build, the first request, the
\* refresh and the retry.
ConcArgs == {NoArgs, [NoArgs EXCEPT !.filterExpression = Some("blocked eq false")]}

StepConc(p) ==
  \/ \E a \in ConcArgs : get_customers(p, a)
  \/ \E a \in ConcArgs : get_products(p, a)
  \/ CallRequest(p)
  \/ SendFirst(p)
  \/ RefreshToken(p)
  \/ RetryRequest(p)

NextConc == (\E p \in Procs : StepConc(p)) \/ Expire

SpecConc == Init /\ [][NextConc]_vars

\* The parameter builder alone, on every combination of its inputs.
NextParams ==
  \/ \E a \in ParamInputs : CallCreateParameters(MainProc, a)
  \/ Return(MainProc)

SpecParams == Init /\ [][NextParams]_vars

\* ------------------------------------------------------------- reading the history
\* The answer to the i-th request of caller p's call, and whether there is one.
Answered(p, i) == i \in 1..Len(sent[p]) /\ sent[p][i].resp /= None
Resp(p, i) == sent[p][i].resp[1]

\* The call's first response was a 401.
First401(p) == Answered(p, 1) /\ Resp(p, 1).status = 401

\* Index of the first next-link fetch in the history: after the call and its retry.
FirstPageFetch(p) == IF First401(p) THEN 3 ELSE 2

\* Requests of the history that repeat the call (same url, method and params as the first).
Repeats(p) ==
  {i \in 2..Len(sent[p]) :
     /\ sent[p][i].url = sent[p][1].url
     /\ sent[p][i].method = sent[p][1].method
     /\ sent[p][i].params = sent[p][1].params}

\* The `value` arrays of the pages received (the 200 answers), joined in order.
RECURSIVE JoinedValues(_)
JoinedValues(log) ==
  IF log = <<>> THEN <<>>
  ELSE LET e == log[Len(log)]
           rest == JoinedValues(SubSeq(log, 1, Len(log) - 1))
       IN IF e.resp /= None /\ e.resp[1].status = 200
          THEN rest \o e.resp[1].body["value"]
          ELSE rest

\* The request methods are those of request(); the other public calls send nothing.
InRequest(p) == op[p] \in {"get_customers", "get_products", "get_customer",
                           "get_product", "request"}

\* ------------------------------------------------------------- C1
\* C1: when the first response of a call is 401, the retried request carries the
\* Authorization header built from the token type and token the refresh has just
\* stored, f'{token_type} {access_token}'.
C1_RetryCarriesRefreshedToken ==
  \A p \in Procs :
    (First401(p) /\ Len(sent[p]) >= 2)
      => sent[p][2].auth = AuthorizationHeader(token_type, access_token)

\* ------------------------------------------------------------- C2
\* C2: a GET request() over a chain of pages p1..pN returns the concatenation of
\* value(p1), ..., value(pN), in page order.
C2_ReturnsAllPagesInOrder ==
  \A p \in Procs :
    (InRequest(p) /\ pc[p] = "done" /\ method[p] = "GET")
      => ret[p] = Some(JoinedValues(sent[p]))

\* ------------------------------------------------------------- C3
\* The filter clauses the non-empty inputs stand for, in the order createdAt,
\* modifiedAt, filterExpression.
ExpectedClauses(a) ==
  (IF TruthyStr(a.createdAt) THEN <<"systemCreatedAt gt " \o a.createdAt[1]>> ELSE <<>>)
  \o (IF TruthyStr(a.modifiedAt) THEN <<"systemModifiedAt gt " \o a.modifiedAt[1]>> ELSE <<>>)
  \o (IF TruthyStr(a.filterExpression) THEN <<a.filterExpression[1]>> ELSE <<>>)

\* c1 and (c2) and (c3): the join the code spells in its f-strings.
RECURSIVE AndJoin(_)
AndJoin(cs) ==
  IF Len(cs) = 1 THEN cs[1]
  ELSE AndJoin(SubSeq(cs, 1, Len(cs) - 1)) \o " and (" \o cs[Len(cs)] \o ")"

\* C3: for every combination of empty / non-empty createdAt, modifiedAt and
\* filterExpression, create_parameters completes normally, the map has a '$filter'
\* entry iff one of the three is non-empty, and that entry is the AND-join of
\* exactly the clauses of the non-empty inputs, in order.
C3_FilterIsAndJoinOfClauses ==
  \A p \in Procs :
    (op[p] = "create_parameters" /\ pc[p] \in {"done", "raised"})
      => /\ pc[p] = "done"
         /\ Has(params, "$filter") <=> ExpectedClauses(args[p]) /= <<>>
         /\ ExpectedClauses(args[p]) /= <<>>
              => params["$filter"] = AndJoin(ExpectedClauses(args[p]))

\* ------------------------------------------------------------- C4
\* C4 as stated: once a call whose first response was 401 is past its refresh,
\* refresh_oauth_token ran exactly once and the same call (same resolved url,
\* method and params) was re-issued exactly once; when the first response is not
\* 401 there is no refresh and no re-issue.
C4_RefreshOnceAndReissueOnce ==
  \A p \in Procs :
    (InRequest(p) /\ Answered(p, 1) /\ pc[p] \in {"paging", "done", "raised"})
      => IF Resp(p, 1).status = 401
         THEN refreshes[p] = 1 /\ Repeats(p) = {2}
         ELSE refreshes[p] = 0 /\ Repeats(p) = {}

\* C4, amended: when the first response is 401, refresh_oauth_token is invoked
\* exactly once, before any re-issue; if it stored a token the same call is
\* re-issued exactly once, if it raised the call is not re-issued at all.  When the
\* first response is not 401 there is no refresh and no re-issue.
C4_RefreshOnceReissueIfRefreshed ==
  \A p \in Procs :
    (InRequest(p) /\ Answered(p, 1))
      => IF Resp(p, 1).status = 401
         THEN /\ pc[p] = "refresh" => refreshes[p] = 0 /\ Repeats(p) = {}
              /\ pc[p] = "retry" => refreshes[p] = 1 /\ Repeats(p) = {}
              /\ pc[p] \in {"paging", "done", "raised"}
                   => /\ refreshes[p] = 1
                      /\ IF exc[p] = Some(TokenError)
                         THEN Len(sent[p]) = 1
                         ELSE Repeats(p) = {2}
         ELSE refreshes[p] = 0 /\ Repeats(p) = {}

\* A call answered 401, refreshed once and re-issued once.
C4_Witness ==
  \E p \in Procs :
    /\ InRequest(p) /\ First401(p)
    /\ refreshes[p] = 1 /\ Repeats(p) = {2} /\ pc[p] = "raised"

\* ------------------------------------------------------------- C5
\* C5: when the first response and the retried response are both 401, the call
\* ends in an error propagated to the caller and returns nothing, with exactly one
\* refresh and exactly two HTTP requests.
C5_SecondUnauthorizedIsFatal ==
  \A p \in Procs :
    (InRequest(p) /\ First401(p) /\ Answered(p, 2) /\ Resp(p, 2).status = 401)
      => /\ pc[p] = "raised"
         /\ exc[p] = Some(HTTPError(401))
         /\ ret[p] = None
         /\ refreshes[p] = 1
         /\ Len(sent[p]) = 2

\* A call whose first response and retried response were both 401.
C5_Witness ==
  \E p \in Procs :
    /\ InRequest(p) /\ First401(p)
    /\ Answered(p, 2) /\ Resp(p, 2).status = 401
    /\ pc[p] = "raised"

\* ------------------------------------------------------------- C6
\* C6: when the identity response contains access_token, the stored access_token
\* and token_type become the response's values; when it does not, the operation
\* raises and both stay what they were.  A refresh that fails inside request()
\* after a 401 issues no retry and the error reaches the caller.
C6_TokenReplacedOrUntouched ==
  /\ [](\A p \in Procs :
          (InRequest(p) /\ exc[p] = Some(TokenError))
            => pc[p] = "raised" /\ ret[p] = None /\ Len(sent[p]) = 1)
  /\ [][\A p \in Procs :
          (token_response[p] = None /\ token_response'[p] /= None)
            => IF "access_token" \in DOMAIN token_response'[p][1]
               THEN /\ access_token' = token_response'[p][1]["access_token"]
                    /\ token_type' = token_response'[p][1]["token_type"]
                    /\ exc'[p] = None
               ELSE /\ access_token' = access_token
                    /\ token_type' = token_type
                    /\ pc'[p] = "raised"
                    /\ exc'[p] = Some(TokenError)
                    /\ sent'[p] = sent[p]]_vars

\* A refresh that failed inside request(), after a 401.
C6_Witness ==
  \E p \in Procs :
    /\ InRequest(p) /\ First401(p)
    /\ token_response[p] /= None
    /\ "access_token" \notin DOMAIN token_response[p][1]
    /\ pc[p] = "raised"

\* ------------------------------------------------------------- C7
\* C7: if a next-link fetch of a GET fails (an error status, or the transport
\* raises), the call ends in that error and returns nothing, however many pages
\* were fetched before, and no page is fetched after the failing one.
C7_FailedPageFetchFailsTheCall ==
  \A p \in Procs :
    \A i \in FirstPageFetch(p)..Len(sent[p]) :
      (sent[p][i].resp = None \/ IsError(Resp(p, i)))
        => /\ pc[p] = "raised"
           /\ ret[p] = None
           /\ i = Len(sent[p])
           /\ exc[p] = Some(IF sent[p][i].resp = None THEN ConnectionError
                            ELSE HTTPError(Resp(p, i).status))

\* Two pages fetched, then a next-link fetch that failed.
C7_Witness ==
  \E p \in Procs :
    /\ Len(sent[p]) = 3 /\ ~First401(p)
    /\ Answered(p, 3) /\ IsError(Resp(p, 3))
    /\ pc[p] = "raised"

\* ------------------------------------------------------------- C8
\* C8: when the first response has an error status other than 401, the call fails
\* with an HTTP error carrying that status, after exactly one HTTP request, with no
\* refresh and no next-link fetch, and the step leaves token and headers as they were.
C8_OtherErrorFailsAtOnce ==
  /\ [](\A p \in Procs :
          (InRequest(p) /\ Answered(p, 1) /\ IsError(Resp(p, 1))
             /\ Resp(p, 1).status /= 401)
            => /\ pc[p] = "raised"
               /\ exc[p] = Some(HTTPError(Resp(p, 1).status))
               /\ ret[p] = None
               /\ Len(sent[p]) = 1
               /\ refreshes[p] = 0
               /\ token_response[p] = None)
  /\ [][\A p \in Procs :
          (pc[p] = "send" /\ pc'[p] = "raised")
            => /\ access_token' = access_token
               /\ token_type' = token_type
               /\ headers' = headers]_vars

\* A call whose first response was a 403 or a 500.
C8_Witness ==
  \E p \in Procs :
    /\ InRequest(p) /\ Answered(p, 1)
    /\ Resp(p, 1).status \in {403, 500}
    /\ pc[p] = "raised"

\* ------------------------------------------------------------- C9
\* C9: a fetch method's collection name is requested at base_url followed by the
\* name; every next-link fetch goes to the link exactly as the previous page
\* carried it, with no query params attached.
C9_ResolvedUrlsAndBareNextLinks ==
  \A p \in Procs :
    /\ (op[p] \in {"get_customers", "get_customer"} /\ Len(sent[p]) >= 1)
         => sent[p][1].url = base_url \o "SQLCustomer"
    /\ (op[p] \in {"get_products", "get_product"} /\ Len(sent[p]) >= 1)
         => sent[p][1].url = base_url \o "SQLProduct"
    /\ \A i \in FirstPageFetch(p)..Len(sent[p]) :
         /\ sent[p][i].url = Resp(p, i - 1).body["@odata.nextLink"]
         /\ sent[p][i].params = EmptyMap

\* ------------------------------------------------------------- C10
\* C10: the first HTTP request of get_customer(id) / get_product(id) is a GET of
\* the SQLCustomer / SQLProduct collection whose parameter map is exactly
\* {'$filter': "no eq '<id>'"}; what the fetch returns is handed back as it is,
\* whether it holds zero, one or several records.
C10_GetByIdSendsIdFilterOnly ==
  \A p \in Procs :
    (op[p] \in {"get_customer", "get_product"} /\ Len(sent[p]) >= 1)
      => /\ sent[p][1].method = "GET"
         /\ sent[p][1].url =
              base_url \o (IF op[p] = "get_customer" THEN "SQLCustomer" ELSE "SQLProduct")
         /\ sent[p][1].params = ("$filter" :> ("no eq '" \o args[p].id[1] \o "'"))
         /\ (pc[p] = "done" /\ Len(sent[p]) = 1)
              => ret[p] = Some(Resp(p, 1).body["value"])

\* get_customer returned a one-page answer holding two records.
C10_Witness ==
  \E p \in Procs :
    /\ op[p] = "get_customer" /\ pc[p] = "done"
    /\ Len(sent[p]) = 1
    /\ ret[p] = Some(<<"r2", "r1">>)

\* ------------------------------------------------------------- C11
\* C11: with every input omitted or falsy the parameter map is empty; each of
\* orderBy, select, offset, limit puts its key ('$orderby', '$select', '$skip',
\* '$top', with the input's string form as value) in the map iff the input is
\* non-falsy; no key but '$filter' and these four is ever in the map.
C11_OptionKeysIffTruthy ==
  \A p \in Procs :
    (op[p] = "create_parameters" /\ pc[p] \in {"done", "raised"})
      => LET a == args[p]
         IN /\ (ExpectedClauses(a) = <<>> /\ ~TruthyStr(a.orderBy) /\ ~TruthyStr(a.select)
                  /\ ~TruthyInt(a.offset) /\ ~TruthyInt(a.limit))
                 => params = EmptyMap
            /\ ("$orderby" \in DOMAIN params) <=> TruthyStr(a.orderBy)
            /\ ("$select" \in DOMAIN params) <=> TruthyStr(a.select)
            /\ ("$skip" \in DOMAIN params) <=> TruthyInt(a.offset)
            /\ ("$top" \in DOMAIN params) <=> TruthyInt(a.limit)
            /\ TruthyStr(a.orderBy) => params["$orderby"] = a.orderBy[1]
            /\ TruthyStr(a.select) => params["$select"] = a.select[1]
            /\ TruthyInt(a.offset) => params["$skip"] = ToString(a.offset[1])
            /\ TruthyInt(a.limit) => params["$top"] = ToString(a.limit[1])
            /\ DOMAIN params \subseteq {"$filter", "$orderby", "$select", "$skip", "$top"}

\* ------------------------------------------------------------- C12
\* C12: for a method other than GET, a successful request() returns the parsed
\* body of the response as it is and fetches no next link, also when the body
\* carries an '@odata.nextLink' entry.
C12_NonGetReturnsBodyUnpaged ==
  \A p \in Procs :
    (InRequest(p) /\ method[p] \notin {"", "GET"})
      => /\ pc[p] /= "paging"
         /\ Len(sent[p]) < FirstPageFetch(p)
         /\ pc[p] = "done"
              => /\ Answered(p, Len(sent[p]))
                 /\ ret[p] = Some(Resp(p, Len(sent[p])).body)

\* A POST that returned a body carrying a next link.
C12_Witness ==
  \E p \in Procs :
    /\ InRequest(p) /\ method[p] = "POST" /\ pc[p] = "done"
    /\ "@odata.nextLink" \in DOMAIN Resp(p, Len(sent[p])).body
    /\ ret[p] = Some(Resp(p, Len(sent[p])).body)

\* ------------------------------------------------------------- C13
\* C13: the pages of a GET are fetched one after the other: a next-link fetch is
\* issued only once the page before it has been received, and goes to the link
\* that page carried; a page without a link ends the call, which returns; a call
\* that returned N pages issued N requests, and one more if its first answer was a
\* 401 that was retried.
C13_PagesFetchedInSequence ==
  \A p \in Procs :
    (InRequest(p) /\ method[p] = "GET")
      => /\ \A i \in 1..(Len(sent[p]) - 1) : Answered(p, i)
         /\ \A i \in FirstPageFetch(p)..Len(sent[p]) :
              /\ Resp(p, i - 1).status = 200
              /\ "@odata.nextLink" \in DOMAIN Resp(p, i - 1).body
              /\ sent[p][i].url = Resp(p, i - 1).body["@odata.nextLink"]
         /\ pc[p] = "paging"
              => /\ Answered(p, Len(sent[p]))
                 /\ Resp(p, Len(sent[p])).status = 200
                 /\ nextLink[p] = Get(Resp(p, Len(sent[p])).body, "@odata.nextLink")
                 /\ nextLink[p] /= None
         /\ (Answered(p, Len(sent[p])) /\ Resp(p, Len(sent[p])).status = 200
               /\ "@odata.nextLink" \notin DOMAIN Resp(p, Len(sent[p])).body)
              => pc[p] = "done"
         /\ pc[p] = "done"
              => /\ "@odata.nextLink" \notin DOMAIN Resp(p, Len(sent[p])).body
                 /\ Len(sent[p]) = Served(sent[p]) + (IF First401(p) THEN 1 ELSE 0)

\* A GET over a chain of three pages that returned after three requests.
C13_Witness ==
  \E p \in Procs :
    /\ InRequest(p) /\ method[p] = "GET" /\ pc[p] = "done"
    /\ Len(sent[p]) = 3 /\ Served(sent[p]) = 3

\* ------------------------------------------------------------- C14
\* The parameter map a call's own arguments stand for: '$filter' joins the clauses
\* of the non-empty filters, each non-falsy option has its key.
ExpectedMap(a) ==
  [k \in {x \in {"$filter"} : ExpectedClauses(a) /= <<>>}
         \cup {x \in {"$orderby"} : TruthyStr(a.orderBy)}
         \cup {x \in {"$select"} : TruthyStr(a.select)}
         \cup {x \in {"$skip"} : TruthyInt(a.offset)}
         \cup {x \in {"$top"} : TruthyInt(a.limit)} |->
     CASE k = "$filter" -> AndJoin(ExpectedClauses(a))
       [] k = "$orderby" -> a.orderBy[1]
       [] k = "$select" -> a.select[1]
       [] k = "$skip" -> ToString(a.offset[1])
       [] k = "$top" -> ToString(a.limit[1])]

\* A call of one of the four fetch methods.
IsFetch(p) == op[p] \in {"get_customers", "get_products", "get_customer", "get_product"}

\* C14: in a sequence of fetch calls that do not overlap, the parameter map sent
\* with the first request of a call is the map of that call's own arguments,
\* whatever an earlier call, ended normally or in an error, left in self.params.
C14_FirstRequestCarriesOwnParams ==
  \A p \in Procs :
    (IsFetch(p) /\ Len(sent[p]) >= 1)
      => sent[p][1].params = ExpectedMap(args[p])

\* A call without arguments, begun while self.params held the entries of an
\* earlier call, sent its first request with an empty map.
C14_Witness ==
  \E p \in Procs :
    /\ IsFetch(p) /\ staleParams[p] /\ args[p] = NoArgs
    /\ Len(sent[p]) >= 1 /\ sent[p][1].params = EmptyMap

\* ------------------------------------------------------------- C15
\* C15: with two calls running on one client at the same time, every call whose
\* first response is a 401 invokes refresh_oauth_token itself: the refresh is
\* pending and free to run whatever the other call does, or it has been invoked,
\* so that two refreshes are in flight or performed for one expiry.
C15_EachUnauthorizedCallRefreshes ==
  \A p \in Procs :
    (IsFetch(p) /\ First401(p))
      => \/ pc[p] = "refresh" /\ refreshes[p] = 0 /\ ENABLED RefreshToken(p)
         \/ refreshes[p] = 1

\* Both calls were answered 401 for the one expired token and each has invoked
\* the refresh: the identity service issued two tokens.
C15_Witness ==
  /\ \A p \in Procs : IsFetch(p) /\ First401(p) /\ refreshes[p] = 1
  /\ expired = 1
  /\ issued = 3

\* ------------------------------------------------------------- C16
\* C16: when two fetch calls interleave on one client, the call and its retry go
\* out with the parameter map of their own call's arguments, and that map is what
\* the call handed to request().
C16_InterleavedCallsCarryOwnParams ==
  \A p \in Procs :
    IsFetch(p)
      => /\ pc[p] \in {"send", "refresh", "retry"} => reqParams[p] = Some(ExpectedMap(args[p]))
         /\ \A i \in 1..Len(sent[p]) :
              i < FirstPageFetch(p) => sent[p][i].params = ExpectedMap(args[p])

\* ------------------------------------------------------------- C17
\* C17: refresh_oauth_token is invoked at most once in a request() call, and only
\* after a first response of 401, before anything else is sent; a next-link fetch
\* answered 401 is the last request of the call, is followed by no refresh, and
\* the call ends in the HTTPError of that 401.
C17_RefreshOnlyOnFirstResponse ==
  \A p \in Procs :
    InRequest(p)
      => /\ refreshes[p] <= 1
         /\ refreshes[p] = 1 => First401(p)
         /\ pc[p] = "refresh" => Len(sent[p]) = 1 /\ refreshes[p] = 0
         /\ token_response[p] /= None => refreshes[p] = 1
         /\ \A i \in FirstPageFetch(p)..Len(sent[p]) :
              (Answered(p, i) /\ Resp(p, i).status = 401)
                => /\ i = Len(sent[p])
                   /\ pc[p] = "raised"
                   /\ exc[p] = Some(HTTPError(401))
                   /\ refreshes[p] = (IF First401(p) THEN 1 ELSE 0)

\* The token expired between two pages: the second fetch was answered 401 and the
\* call ended there, with no refresh.
C17_Witness ==
  \E p \in Procs :
    /\ InRequest(p) /\ ~First401(p) /\ Len(sent[p]) = 2
    /\ Answered(p, 2) /\ Resp(p, 2).status = 401
    /\ pc[p] = "raised" /\ refreshes[p] = 0

====
